---- MODULE Spec2Model ----
(***************************************************************************)
(* The AssemblyAI transcription client of the voice-assistant gateway      *)
(* (src/server.js, transcribeWithAssemblyAI): upload the audio, create a   *)
(* transcription job, poll its status until it completes, fails or the     *)
(* local deadline passes.                                                  *)
(*                                                                         *)
(* One step of the model is the code that runs between two suspension      *)
(* points (await) of the async function: the arrival of a response or the  *)
(* firing of the poll timer, together with everything the function does    *)
(* synchronously afterwards, up to the next outbound call or timer.        *)
(*                                                                         *)
(* Time is in milliseconds.  The code reads the clock only to subtract two *)
(* readings, so `now` is counted from the moment the current call began.   *)
(* The poll timer takes PollIntervalMs; whatever passes between its expiry *)
(* and the arrival of the status response is the latency of that poll.     *)
(* Calls are made one after the other.                                     *)
(*                                                                         *)
(* Spec and FairSpec are that client behind its /upload-audio route        *)
(* (multer, the handler's checks, the status of the answer).  ConcSpec is  *)
(* the client called by requests served at the same time.  WhisperSpec is  *)
(* the /upload-audio route of the Whisper revision, RetrySpec the          *)
(* /ask-ai route with the text-completion call queryAI and its retry,      *)
(* FallbackSpec the queryAI of the revision with a fallback model,         *)
(* HealthSpec the /health route and ListenSpec the listen button of the    *)
(* browser client.  The variables of one specification stay as Init        *)
(* leaves them in the others.                                              *)
(***************************************************************************)
EXTENDS Integers, Sequences, FiniteSets, TLC

(***************************************************************************)
(* Program constants.                                                      *)
(***************************************************************************)
\* src/server.js:527  Date.now() - startTime < 180000
MaxWaitMs == 180000
\* src/server.js:528  setTimeout(resolve, 1000)
PollIntervalMs == 1000

(***************************************************************************)
(* Bounds of the model.                                                    *)
(***************************************************************************)
\* transcribeWithAssemblyAI calls made one after the other
MaxCalls == 2
\* a response arrives at once or after LatencyStep ms (the upload and
\* create calls give up after timeout: 30000)
LatencyStep == 400
\* a very slow status response (the status GET sets no axios timeout)
LongLatency == 90400
\* at most MaxSlow responses of one call take more than 0 ms
MaxSlow == 2
\* cap of the poll counter (never binding: the deadline ends the loop first)
MaxPolls == 200

Latencies == {0, LatencyStep}
StatusLatencies == Latencies \cup {LongLatency}

\* what the handler passes as contentType
ContentTypes == {"audio/mpeg", "audio/wav"}

\* string.includes(sub)
Includes(s, sub) ==
  \E i \in 1..(Len(s) - Len(sub) + 1) : SubSeq(s, i, i + Len(sub) - 1) = sub

\* multer: limits.fileSize
MulterFileSize == 25 * 1024 * 1024
\* /upload-audio (AssemblyAI): req.file.size > 5 * 1024 * 1024
AudioLimit == 5 * 1024 * 1024

\* acceptedTypes, as the 400 answer of /upload-audio lists them
AcceptedTypes == {"audio/mpeg", "audio/wav", "audio/ogg"}

\* file.mimetype of an uploaded file
MimeTypes == {"audio/mpeg", "application/pdf", "video/mp4"}
\* req.file.size in bytes: at a limit and one byte beyond it
FileSizes == {AudioLimit, AudioLimit + 1, MulterFileSize + 1}

\* a POST /upload-audio without a file part
NoFile == [hasFile |-> FALSE, mimetype |-> "", size |-> 0]
\* no request has arrived
NoRequest == [hasFile |-> FALSE, mimetype |-> "none", size |-> 0]

\* the multipart requests POST /upload-audio receives: a file of each type
\* at the audio limit, and an audio file of each size
Requests ==
  {NoFile}
  \cup { [hasFile |-> TRUE, mimetype |-> m, size |-> AudioLimit] : m \in MimeTypes }
  \cup { [hasFile |-> TRUE, mimetype |-> "audio/mpeg", size |-> n] : n \in FileSizes }

\* the text field of a status response; "" stands for a missing, null or
\* empty text (all falsy in JavaScript)
Texts == {"", "hello", "done"}
\* the error field of a status response whose status is 'error'
Reasons == {"corrupt audio"}
NonTerminal == {"queued", "processing"}

\* a failed axios call: no response at all (httpStatus 0) or a non-2xx one
Failures ==
  { [ok |-> FALSE, httpStatus |-> 0,   message |-> "Network Error"],
    [ok |-> FALSE, httpStatus |-> 429, message |-> "Request failed with status code 429"],
    [ok |-> FALSE, httpStatus |-> 500, message |-> "Request failed with status code 500"] }

\* 2xx answers of GET /transcript/{id}
StatusBodies ==
     { [status |-> s, text |-> "", error |-> ""] : s \in NonTerminal }
  \cup { [status |-> "completed", text |-> t, error |-> ""] : t \in Texts }
  \cup { [status |-> "error", text |-> "", error |-> r] : r \in Reasons }

NoBody == [status |-> "none", text |-> "", error |-> ""]

VARIABLES
  callNo,         \* number of transcribeWithAssemblyAI calls started so far
  pc,             \* where the current call is suspended
  now,            \* Date.now(), counted from the start of the current call
  contentType,    \* the contentType argument
  req,            \* the POST /upload-audio request being served
  uploads,        \* POST /upload calls issued by the current call
  creates,        \* POST /transcript calls issued by the current call
  polls,          \* GET /transcript/{id} calls issued by the current call
  uploadUrl,      \* uploadResponse.data.upload_url ("": none yet)
  transcriptId,   \* transcriptionResponse.data.id (0: none yet)
  polledId,       \* the id in the URL of the latest status call (0: none)
  status,         \* let status
  transcriptText, \* let transcriptText
  startTime,      \* const startTime
  result,         \* what the call returned or threw
  remoteJobs,     \* jobs the remote has created
  \* history of the current call, read by the properties only
  checks,         \* evaluations of the while condition
  checkedElapsed, \* Date.now() - startTime at the latest of them (-1: none)
  lastReturnAt,   \* when the previous status call returned (or the loop began)
  nonTerminal,    \* status responses with a non-terminal status
  lastBody,       \* body of the latest 2xx status response
  failure,        \* the outbound call that failed, and how
  lastLat,        \* latency of the latest status call
  maxLat,         \* largest latency of a status call
  slow            \* responses that took more than 0 ms

\* the /upload-audio route of the Whisper revision (src/server.js:183-246)
VARIABLES
  wReq,           \* the POST /upload-audio request being served
  wPc,            \* where its handler is suspended
  wOutbound,      \* the outbound calls the handler issued for it
  wData,          \* response.data of the Whisper call
  wRes            \* the HTTP response of the handler

\* the variables of the AssemblyAI revision
transcribeVars ==
  << callNo, pc, now, contentType, req, uploads, creates, polls, uploadUrl,
     transcriptId, polledId, status, transcriptText, startTime, result,
     remoteJobs, checks, checkedElapsed, lastReturnAt,
     nonTerminal, lastBody, failure, lastLat, maxLat, slow >>

whisperVars == << wReq, wPc, wOutbound, wData, wRes >>

\* transcribeWithAssemblyAI called by requests that are served at the same
\* time: the awaits of one call interleave with those of the others on the
\* event loop.  Each variable is a function of the invocation.
VARIABLES
  cNow,           \* Date.now()
  cPc,            \* where the invocation is suspended
  cDue,           \* when the call or timer it awaits settles
  cLat,           \* how long the outbound call it awaits takes
  cSent,          \* outbound calls the invocation has issued
  cId,            \* const transcriptId
  cStatus,        \* let status
  cText,          \* let transcriptText
  cStart,         \* const startTime
  cResult,        \* what the invocation returned or threw
  cJobs,          \* jobs the remote has created
  \* history, read by the properties only
  cCreated,       \* the job id the remote returned to the invocation
  cPolled,        \* the id in the URL of its latest status call
  cHist,          \* the responses the invocation received, in order
  cGone           \* the client of the request has disconnected

concVars == << cNow, cPc, cDue, cLat, cSent, cId, cStatus, cText, cStart,
               cResult, cJobs, cCreated, cPolled, cHist, cGone >>

\* queryAI, the text-completion call with its retry (src/server.js:37-84
\* for Hugging Face, 710-765 for Groq)
VARIABLES
  qVariant,       \* which of the two revisions of queryAI runs
  qKey,           \* process.env.*_API_KEY is set
  qPc,            \* where the call is suspended
  qRetries,       \* the retries argument of the innermost invocation
  qAttempts,      \* axios.post calls issued
  qDelays,        \* the delays of the timers set so far, in order
  qLog,           \* the errors caught (and logged) so far, in order
  qResult,        \* what queryAI(prompt) returned or threw
  aReq,           \* req.body of the POST /ask-ai request being served
  aInvoked        \* calls of queryAI the handler made for it

retryVars == << qVariant, qKey, qPc, qRetries, qAttempts, qDelays, qLog,
                qResult, aReq, aInvoked >>

\* queryAI of the revision with the fallback model (src/server.js:334-405)
VARIABLES
  fKey,           \* process.env.GROQ_API_KEY is set
  fPc,            \* where the call is suspended
  fRetries,       \* the retries argument of the innermost invocation
  fCalls,         \* the models of the axios.post calls issued, in order
  fDelays,        \* the delays of the timers set so far, in order
  fLog,           \* the errors the outer catch blocks caught, in order
  fResult,        \* what queryAI(prompt) returned or threw
  fSource         \* the source tag of the object returned

fallbackVars == << fKey, fPc, fRetries, fCalls, fDelays, fLog, fResult,
                   fSource >>

\* GET /health (src/server.js:249-275, 615-655, 913-940)
VARIABLES
  hVariant,       \* which revision of the handler runs
  hTextKey,       \* the key of the text-generation service is set
  hAudioKey,      \* process.env.ASSEMBLYAI_API_KEY is set
  hPc,            \* where the handler is suspended, or how it ended
  hText,          \* health.services: the entry of the text-generation service
  hAudio,         \* health.services.audio_transcription
  hError,         \* health.huggingface_error, health.groq_error
  hFailed,        \* the probes of this request that failed
  hReports,       \* health reports sent for this request
  hErrors,        \* error answers sent for this request
  hReqs,          \* requests received
  hLog            \* the bodies of the answers sent, in order

healthVars == << hVariant, hTextKey, hAudioKey, hPc, hText, hAudio, hError,
                 hFailed, hReports, hErrors, hReqs, hLog >>

\* the listen button of the browser client (src/public/script.js:81-105,
\* src/unnamed/part_001:142-178)
VARIABLES
  lVariant,       \* which revision of the client the page runs
  lRec,           \* the state of the SpeechRecognition object
  lButton,        \* elements.listenBtn.textContent
  isListening,    \* the flag of the later revision
  lQuestion,      \* elements.question.value
  lAlert,         \* the kind of the alert shown last by a recognition handler
  lStarts,        \* calls of recognition.start()
  lStops,         \* calls of recognition.stop()
  lBadStarts,     \* calls of recognition.start() made while it was active
  lBadStops,      \* calls of recognition.stop() made while it was inactive
  lClicks         \* clicks on the listen button

listenVars == << lVariant, lRec, lButton, isListening, lQuestion, lAlert,
                 lStarts, lStops, lBadStarts, lBadStops, lClicks >>

\* the variables of the other routes and of the client
restVars == << fallbackVars, healthVars, listenVars >>

\* the variables a step of the AssemblyAI revision leaves alone
elsewhere == << whisperVars, concVars, retryVars, restVars >>

vars == << transcribeVars, elsewhere >>

NoFailure == [call |-> "none", httpStatus |-> 0, message |-> ""]
Failed(call, f) == [call |-> call, httpStatus |-> f.httpStatus, message |-> f.message]

NoResult == [kind |-> "none", text |-> "", message |-> "", responseStatus |-> 0]

\* return { text: transcriptText, model: 'assemblyai', source: 'api' }
Returned(t) == [kind |-> "ok", text |-> t, message |-> "", responseStatus |-> 0]

\* throw error (the catch block logs and rethrows the same error);
\* responseStatus is error.response?.status, 0 when the error has no response
Threw(msg, code) == [kind |-> "threw", text |-> "", message |-> msg, responseStatus |-> code]

\* an axios call that failed rejects with an error carrying the response
AxiosError(f) == Threw(f.message, f.httpStatus)

TimedOutMessage == "Transcription timed out"
RemoteFailedMessage(r) == "Transcription failed: " \o r

\* /upload-audio (Whisper): req.file.size > 10 * 1024 * 1024
WhisperLimit == 10 * 1024 * 1024
WhisperFileSizes == {WhisperLimit, WhisperLimit + 1, MulterFileSize + 1}
WhisperMimeTypes == MimeTypes \cup AcceptedTypes
WhisperRequests ==
  {NoFile} \cup { [hasFile |-> TRUE, mimetype |-> m, size |-> n] :
                    m \in WhisperMimeTypes, n \in WhisperFileSizes }

\* a transcript field of the Whisper answer; "" stands for a missing, null
\* or empty one (all falsy in JavaScript)
WhisperTexts == {"", "hi", "yo"}

\* response.data of the Whisper call: a JSON object with its members text,
\* transcription_text and "0" (an object with transcription_text), a JSON
\* array whose first element has transcription_text, or null
WhisperData ==
     { [shape |-> "object", text |-> t, transcription_text |-> u, first |-> v] :
         t \in WhisperTexts, u \in WhisperTexts, v \in WhisperTexts }
  \cup { [shape |-> "array", text |-> "", transcription_text |-> "", first |-> v] :
         v \in WhisperTexts }
  \cup { [shape |-> "null", text |-> "", transcription_text |-> "", first |-> ""] }

NoData == [shape |-> "none", text |-> "", transcription_text |-> "", first |-> ""]

\* the Whisper call gives up after timeout: 30000
WhisperFailures ==
  Failures \cup
  { [ok |-> FALSE, httpStatus |-> 0, message |-> "timeout of 30000ms exceeded"] }

NoResponse == [status |-> 0, success |-> FALSE, text |-> "", details |-> ""]

\* the invocations that run at the same time
Callers == {"a", "b"}
\* status calls one of them issues at most
ConcMaxPolls == 3

\* what the remote answers them with
ConcStatusLatencies == {0, LongLatency}
ConcBodies == { b \in StatusBodies : b.status # "queued" /\ b.text # "done" }
ConcFailures == { f \in Failures : f.httpStatus = 500 }

\* a response as an invocation saw it: how long it took, and the failure or
\* the body it carried
Response(lat, f, b) == [lat |-> lat, fail |-> f, body |-> b]

\* GET /health requests of a behaviour
MaxHealthRequests == 2

\* clicks on the listen button in a behaviour
MaxClicks == 4

\* queryAI = async (prompt, retries = 3)
DefaultRetries == 3
\* setTimeout(resolve, 1000 * (4 - retries))
BackoffUnitMs == 1000

QueryVariants == {"huggingface", "groq"}

\* how an attempt of queryAI fails: the key is missing, the axios call
\* fails, or (Groq) the answer has no choices[0].message.content
QueryErrors ==
  Failures \cup
  { [ok |-> FALSE, httpStatus |-> 401, message |-> "Request failed with status code 401"],
    [ok |-> FALSE, httpStatus |-> 0, message |-> "Invalid response format from Groq API"],
    [ok |-> FALSE, httpStatus |-> 0, message |-> "Hugging Face API key not configured"],
    [ok |-> FALSE, httpStatus |-> 0, message |-> "Groq API key not configured"] }

\* a member of the JSON body of POST /ask-ai: absent (undefined or null), a
\* string, or a value of another type
Absent == [type |-> "undefined", str |-> ""]
Str(s) == [type |-> "string", str |-> s]
NotAString == [type |-> "number", str |-> ""]

AskStrings == {"", "  ", "hi", " hi "}
AskValues == {Absent, NotAString} \cup { Str(s) : s \in AskStrings }
AskBodies == [question : AskValues, pdfText : AskValues]

\* the two labels of the listen button
StartListening == "Start Listening"
Listening == "Listening..."

\* no request has arrived
NoAsk == [question |-> [type |-> "none", str |-> ""],
          pdfText |-> [type |-> "none", str |-> ""]]

Init ==
  /\ lVariant = "none" /\ lRec = "inactive" /\ lButton = StartListening
  /\ isListening = FALSE /\ lQuestion = "" /\ lAlert = "none"
  /\ lStarts = 0 /\ lStops = 0 /\ lBadStarts = 0 /\ lBadStops = 0
  /\ lClicks = 0
  /\ hVariant = "groq" /\ hTextKey = TRUE /\ hAudioKey = FALSE
  /\ hPc = "idle" /\ hText = "none" /\ hAudio = "none" /\ hError = ""
  /\ hFailed = {} /\ hReports = 0 /\ hErrors = 0 /\ hReqs = 0
  /\ hLog = << >>
  /\ fKey = TRUE /\ fPc = "idle" /\ fRetries = DefaultRetries
  /\ fCalls = << >> /\ fDelays = << >> /\ fLog = << >>
  /\ fResult = NoResult /\ fSource = "none"
  /\ aReq = NoAsk /\ aInvoked = 0
  /\ qVariant = "groq" /\ qKey = TRUE /\ qPc = "idle"
  /\ qRetries = DefaultRetries /\ qAttempts = 0 /\ qDelays = << >>
  /\ qLog = << >> /\ qResult = NoResult
  /\ cNow = 0 /\ cJobs = 0
  /\ cPc = [c \in Callers |-> "idle"]
  /\ cDue = [c \in Callers |-> 0]
  /\ cLat = [c \in Callers |-> 0]
  /\ cSent = [c \in Callers |-> 0]
  /\ cId = [c \in Callers |-> 0]
  /\ cStatus = [c \in Callers |-> "none"]
  /\ cText = [c \in Callers |-> ""]
  /\ cStart = [c \in Callers |-> 0]
  /\ cResult = [c \in Callers |-> NoResult]
  /\ cCreated = [c \in Callers |-> 0]
  /\ cPolled = [c \in Callers |-> 0]
  /\ cHist = [c \in Callers |-> << >>]
  /\ cGone = [c \in Callers |-> FALSE]
  /\ wReq = NoRequest /\ wPc = "idle" /\ wOutbound = << >>
  /\ wData = NoData /\ wRes = NoResponse
  /\ callNo = 0
  /\ pc = "idle"
  /\ now = 0
  /\ contentType = "audio/wav"
  /\ req = NoRequest
  /\ uploads = 0 /\ creates = 0 /\ polls = 0
  /\ uploadUrl = "" /\ transcriptId = 0 /\ polledId = 0
  /\ status = "none" /\ transcriptText = "" /\ startTime = 0
  /\ result = NoResult
  /\ remoteJobs = 0
  /\ checks = 0 /\ checkedElapsed = -1 /\ lastReturnAt = 0
  /\ nonTerminal = 0 /\ lastBody = NoBody /\ lastLat = 0 /\ maxLat = 0
  /\ failure = NoFailure
  /\ slow = 0

\* a response may take lat ms: only MaxSlow responses of a call are slow
Takes(lat) ==
  /\ lat > 0 => slow < MaxSlow
  /\ slow' = IF lat > 0 THEN slow + 1 ELSE slow
  /\ now' = now + lat

\* the loop condition without the deadline
LoopContinues_StatusOnly(st, elapsed) == st # "completed"

\* the deadline itself still admits an iteration
LoopContinues_Inclusive(st, elapsed) == st # "completed" /\ elapsed <= MaxWaitMs

\* the deadline is counted from the end of the first sleep
LoopContinues_LateDeadline(st, elapsed) ==
  st # "completed" /\ elapsed - PollIntervalMs < MaxWaitMs

\* while (status !== 'completed' && Date.now() - startTime < 180000)
LoopContinues(st, elapsed) == st # "completed" /\ elapsed < MaxWaitMs

\* whatever transcriptText holds after the loop is returned
AfterLoop_AlwaysReturns(txt) == Returned(txt)

\* if (!transcriptText) throw new Error('Transcription timed out'); return {...}
AfterLoop(txt) == IF txt = "" THEN Threw(TimedOutMessage, 0) ELSE Returned(txt)

\* the while condition is evaluated with the values st, txt at time t, the
\* loop having begun at time start:
\* either the timer of the next iteration is set, or the loop is left
LoopTop(st, txt, t, start) ==
  /\ checks' = checks + 1
  /\ checkedElapsed' = t - start
  /\ lastReturnAt' = t
  /\ IF LoopContinues(st, t - start)
       THEN pc' = "sleep" /\ result' = result
       ELSE pc' = "done" /\ result' = AfterLoop(txt)

\* a later call picks up the job of the call before it when there is one
Transcribe_Reuse ==
  /\ pc \in {"idle", "done"}
  /\ callNo < MaxCalls
  /\ \E ct \in ContentTypes : contentType' = ct
  /\ callNo' = callNo + 1
  /\ now' = 0
  /\ IF transcriptId # 0
       THEN /\ uploads' = 0 /\ transcriptId' = transcriptId
            /\ checks' = 1 /\ checkedElapsed' = 0 /\ pc' = "sleep"
            /\ status' = "queued"
       ELSE /\ uploads' = 1 /\ transcriptId' = 0
            /\ checks' = 0 /\ checkedElapsed' = -1 /\ pc' = "upload"
            /\ status' = "none"
  /\ creates' = 0 /\ polls' = 0
  /\ uploadUrl' = "" /\ polledId' = 0
  /\ transcriptText' = "" /\ startTime' = 0
  /\ result' = NoResult
  /\ lastReturnAt' = 0
  /\ nonTerminal' = 0 /\ lastBody' = NoBody /\ lastLat' = 0 /\ maxLat' = 0
  /\ failure' = NoFailure
  /\ slow' = 0
  /\ UNCHANGED remoteJobs

\* transcribeWithAssemblyAI(audioBuffer, contentType) is called: the locals
\* are fresh and the upload call is issued
Transcribe ==
  /\ pc \in {"idle", "done"}
  /\ callNo < MaxCalls
  /\ \E ct \in ContentTypes : contentType' = ct
  /\ callNo' = callNo + 1
  /\ now' = 0
  /\ uploads' = 1 /\ creates' = 0 /\ polls' = 0
  /\ uploadUrl' = "" /\ transcriptId' = 0 /\ polledId' = 0
  /\ status' = "none" /\ transcriptText' = "" /\ startTime' = 0
  /\ result' = NoResult
  /\ checks' = 0 /\ checkedElapsed' = -1 /\ lastReturnAt' = 0
  /\ nonTerminal' = 0 /\ lastBody' = NoBody /\ lastLat' = 0 /\ maxLat' = 0
  /\ failure' = NoFailure
  /\ slow' = 0
  /\ pc' = "upload"
  /\ UNCHANGED remoteJobs

\* the frame of a step that ends the call before the poll loop began
NoLoopYet ==
  UNCHANGED << remoteJobs, transcriptId, status, transcriptText, startTime,
               checks, checkedElapsed, lastReturnAt >>

\* POST /upload answered 2xx: the job-create call is issued with the url
UploadSucceeded ==
  /\ uploadUrl' = "upload_url"
  /\ creates' = creates + 1
  /\ pc' = "create"
  /\ UNCHANGED << uploads, result >>

\* the upload call is issued again after a failure (once)
UploadFailed_Retry(f) ==
  /\ IF uploads < 2
       THEN pc' = "upload" /\ uploads' = uploads + 1 /\ result' = result
       ELSE pc' = "done" /\ uploads' = uploads /\ result' = AxiosError(f)
  /\ UNCHANGED << uploadUrl, creates >>

\* POST /upload failed: axios rejects, the catch block rethrows
UploadFailed(f) ==
  /\ pc' = "done"
  /\ result' = AxiosError(f)
  /\ UNCHANGED << uploads, uploadUrl, creates >>

\* the upload call returns
UploadReturns ==
  /\ pc = "upload"
  /\ \E lat \in Latencies : Takes(lat)
  /\ \/ UploadSucceeded /\ failure' = failure
     \/ \E f \in Failures : UploadFailed(f) /\ failure' = Failed("upload", f)
  /\ NoLoopYet
  /\ UNCHANGED << callNo, contentType, req, polls, polledId, nonTerminal,
                  lastBody, lastLat, maxLat >>
  /\ UNCHANGED elsewhere

\* POST /transcript answered 2xx with the job id: the poll loop begins
\* (status = 'queued', transcriptText = '', startTime = Date.now())
CreateSucceeded ==
  /\ remoteJobs' = remoteJobs + 1
  /\ transcriptId' = remoteJobs + 1
  /\ status' = "queued"
  /\ transcriptText' = ""
  /\ startTime' = now'
  /\ LoopTop("queued", "", now', now')
  /\ UNCHANGED << uploads, creates >>

\* the job-create call is issued again after a failure (once)
CreateFailed_Retry(f) ==
  /\ IF creates < 2
       THEN pc' = "create" /\ creates' = creates + 1 /\ result' = result
       ELSE pc' = "done" /\ creates' = creates /\ result' = AxiosError(f)
  /\ NoLoopYet
  /\ UNCHANGED uploads

\* POST /transcript failed: axios rejects, the catch block rethrows
CreateFailed(f) ==
  /\ pc' = "done"
  /\ result' = AxiosError(f)
  /\ NoLoopYet
  /\ UNCHANGED << uploads, creates >>

\* the job-create call returns
CreateReturns ==
  /\ pc = "create"
  /\ \E lat \in Latencies : Takes(lat)
  /\ \/ CreateSucceeded /\ failure' = failure
     \/ \E f \in Failures : CreateFailed(f) /\ failure' = Failed("create", f)
  /\ UNCHANGED << callNo, contentType, req, polls, uploadUrl, polledId,
                  nonTerminal, lastBody, lastLat, maxLat >>
  /\ UNCHANGED elsewhere

\* the timer fires and two status calls are issued side by side
SleepEnds_TwoAtOnce ==
  /\ pc = "sleep"
  /\ polls < MaxPolls
  /\ now' = now + PollIntervalMs
  /\ polls' = polls + 2
  /\ polledId' = transcriptId
  /\ pc' = "status"
  /\ UNCHANGED << callNo, contentType, req, uploads, creates, uploadUrl,
                  transcriptId, status, transcriptText, startTime, result,
                  remoteJobs, checks, checkedElapsed, lastReturnAt,
                  nonTerminal, lastBody, failure, lastLat, maxLat, slow >>
  /\ UNCHANGED elsewhere

\* await new Promise(resolve => setTimeout(resolve, 1000)) is over and the
\* status call is issued for transcriptId
SleepEnds ==
  /\ pc = "sleep"
  /\ polls < MaxPolls
  /\ now' = now + PollIntervalMs
  /\ polls' = polls + 1
  /\ polledId' = transcriptId
  /\ pc' = "status"
  /\ UNCHANGED << callNo, contentType, req, uploads, creates, uploadUrl,
                  transcriptId, status, transcriptText, startTime, result,
                  remoteJobs, checks, checkedElapsed, lastReturnAt,
                  nonTerminal, lastBody, failure, lastLat, maxLat, slow >>
  /\ UNCHANGED elsewhere

\* the frame of a step that leaves the loop without evaluating its condition
NoCheck == UNCHANGED << checks, checkedElapsed, lastReturnAt >>

\* a failed status call is swallowed and the job is polled again
StatusFailed_Swallowed(f) ==
  /\ LoopTop(status, transcriptText, now', startTime)
  /\ UNCHANGED << status, transcriptText, nonTerminal, lastBody >>

\* GET /transcript/{id} failed: axios rejects inside the loop, the catch
\* block rethrows
StatusFailed(f) ==
  /\ pc' = "done"
  /\ result' = AxiosError(f)
  /\ NoCheck
  /\ UNCHANGED << status, transcriptText, nonTerminal, lastBody >>

\* the text of the completed job is not copied into transcriptText
StatusCompleted_NoText(b) ==
  /\ lastBody' = b
  /\ status' = b.status
  /\ transcriptText' = transcriptText
  /\ pc' = "done"
  /\ result' = AfterLoop(transcriptText)
  /\ NoCheck
  /\ UNCHANGED nonTerminal

\* status === 'completed': transcriptText = statusResponse.data.text; break
StatusCompleted(b) ==
  /\ lastBody' = b
  /\ status' = b.status
  /\ transcriptText' = b.text
  /\ pc' = "done"
  /\ result' = AfterLoop(b.text)
  /\ NoCheck
  /\ UNCHANGED nonTerminal

\* a job the remote reports as failed is polled again
StatusError_KeepPolling(b) ==
  /\ lastBody' = b
  /\ status' = b.status
  /\ transcriptText' = transcriptText
  /\ UNCHANGED nonTerminal
  /\ LoopTop(b.status, transcriptText, now', startTime)

\* status === 'error': throw new Error(`Transcription failed: ${...error}`)
StatusError(b) ==
  /\ lastBody' = b
  /\ status' = b.status
  /\ pc' = "done"
  /\ result' = Threw(RemoteFailedMessage(b.error), 0)
  /\ NoCheck
  /\ UNCHANGED << transcriptText, nonTerminal >>

\* any other status: the loop condition is evaluated again
StatusPending(b) ==
  /\ lastBody' = b
  /\ status' = b.status
  /\ nonTerminal' = nonTerminal + 1
  /\ transcriptText' = transcriptText
  /\ LoopTop(b.status, transcriptText, now', startTime)

\* the status call returns
StatusReturns ==
  /\ pc = "status"
  /\ \E lat \in StatusLatencies :
       /\ Takes(lat)
       /\ lastLat' = lat
       /\ maxLat' = IF lat > maxLat THEN lat ELSE maxLat
  /\ \/ \E f \in Failures : StatusFailed(f) /\ failure' = Failed("status", f)
     \/ \E b \in StatusBodies :
          /\ failure' = failure
          /\ CASE b.status = "completed" -> StatusCompleted(b)
                [] b.status = "error"     -> StatusError(b)
                [] OTHER                  -> StatusPending(b)
  /\ UNCHANGED << callNo, contentType, req, uploads, creates, polls,
                  uploadUrl, transcriptId, polledId, startTime, remoteJobs >>
  /\ UNCHANGED elsewhere

\* type.split('/')[0]
BeforeSlash(type) ==
  LET k == CHOOSE i \in 1..Len(type) :
             /\ SubSeq(type, i, i) = "/"
             /\ \A j \in 1..(i - 1) : SubSeq(type, j, j) # "/"
  IN  SubSeq(type, 1, k - 1)

\* const allowedTypes = ['application/pdf', 'audio/*']
AllowedTypes == {"application/pdf", "audio/*"}

\* fileFilter: allowedTypes.some(type =>
\*   file.mimetype.includes(type.split('/')[0]))
FileFilter(mimetype) ==
  \E type \in AllowedTypes : Includes(mimetype, BeforeSlash(type))

\* upload.single('audioFile'): multer hands the handler req.file ("file"),
\* no req.file ("nofile"), or passes an error to the error middleware when
\* fileFilter refuses the file or the file exceeds limits.fileSize
Multer(r) ==
  IF ~r.hasFile THEN "nofile"
  ELSE IF ~FileFilter(r.mimetype) THEN "error"
  ELSE IF r.size > MulterFileSize THEN "error"
  ELSE "file"

\* the HTTP status with which a request is answered before
\* transcribeWithAssemblyAI is called, 0 when it is not:
\* the error middleware answers 500, the handler 400 without a file and 413
\* for a file over the audio limit
Gate(r) ==
  CASE Multer(r) = "error"  -> 500
    [] Multer(r) = "nofile" -> 400
    [] OTHER -> IF r.size > AudioLimit THEN 413 ELSE 0

\* Gate, tabulated over the requests
GateOf == [r \in Requests |-> Gate(r)]

\* const contentType = req.file.mimetype === 'audio/mpeg' ? ... : 'audio/wav'
HandlerContentType(mimetype) ==
  IF mimetype = "audio/mpeg" THEN "audio/mpeg" ELSE "audio/wav"

\* the request is answered without a call of transcribeWithAssemblyAI and
\* nothing else happens (such requests are served before the first call:
\* the handler keeps no state from one request to the next)
Rejected ==
  /\ pc = "idle"
  /\ UNCHANGED << callNo, pc, now, contentType, uploads, creates, polls,
                  uploadUrl, transcriptId, polledId, status, transcriptText,
                  startTime, result, remoteJobs, checks, checkedElapsed,
                  lastReturnAt, nonTerminal, lastBody, failure, lastLat,
                  maxLat, slow >>

\* app.post('/upload-audio', upload.single('audioFile'), ...) receives a
\* request: it is answered at once, or transcribeWithAssemblyAI is called
\* with the file and the content type the handler derives
UploadAudio ==
  /\ callNo < MaxCalls
  /\ \E r \in Requests :
       /\ req' = r
       /\ IF GateOf[r] = 0
            THEN Transcribe /\ contentType' = HandlerContentType(r.mimetype)
            ELSE Rejected
  /\ UNCHANGED elsewhere

\* res.json(...) answers 200; the catch block answers
\* error.response?.status || 500
Respond(res) ==
  IF res.kind = "ok" THEN 200
  ELSE IF res.responseStatus # 0 THEN res.responseStatus ELSE 500

\* the status of the HTTP response to the request being served (0: none yet)
HttpStatus ==
  IF req = NoRequest THEN 0
  ELSE IF GateOf[req] # 0 THEN GateOf[req]
  ELSE IF pc = "done" THEN Respond(result)
  ELSE 0

Next ==
  \/ UploadAudio
  \/ UploadReturns
  \/ CreateReturns
  \/ SleepEnds
  \/ StatusReturns

Spec == Init /\ [][Next]_vars

\* timers fire and every outbound call eventually returns or fails
FairSpec ==
  /\ Spec
  /\ WF_vars(UploadReturns)
  /\ WF_vars(CreateReturns)
  /\ WF_vars(SleepEnds)
  /\ WF_vars(StatusReturns)

(***************************************************************************)
(* The /upload-audio route of the Whisper revision: one synchronous call.  *)
(***************************************************************************)
WhisperUrl == "https://api-inference.huggingface.co/models/facebook/whisper-medium.en"

\* as Gate, with the audio limit of this revision
WhisperGate(r) ==
  CASE Multer(r) = "error"  -> 500
    [] Multer(r) = "nofile" -> 400
    [] OTHER -> IF r.size > WhisperLimit THEN 413 ELSE 0

\* res.status(400 | 413).json({error: ...}), or the error middleware's 500
ErrorAnswer(code) ==
  [status |-> code, success |-> FALSE, text |-> "",
   details |-> CASE code = 400 -> "No audio file uploaded"
                 [] code = 413 -> "File too large"
                 [] OTHER      -> "Internal server error"]

\* catch (error): statusCode = error.message.includes('rate limit') ? 429 : 500
Caught(message) ==
  [status |-> IF Includes(message, "rate limit") THEN 429 ELSE 500,
   success |-> FALSE, text |-> "", details |-> message]

\* res.json({success: true, text: transcription, model: ...})
Success(t) == [status |-> 200, success |-> TRUE, text |-> t, details |-> ""]

\* only the direct text field is read
Transcription_DirectOnly(d) == d.text

\* the element of an array is read first
Transcription_ArrayFirst(d) ==
  IF d.first # "" THEN d.first
  ELSE IF d.text # "" THEN d.text
  ELSE d.transcription_text

\* response.data.text || response.data?.transcription_text ||
\*   (response.data[0]?.transcription_text)
Transcription(d) ==
  IF d.text # "" THEN d.text
  ELSE IF d.transcription_text # "" THEN d.transcription_text
  ELSE d.first

NoTranscriptionMessage == "No transcription returned from API"

\* the handler receives a request: it is answered at once, or the file is
\* posted to the Whisper model
WhisperUploadAudio ==
  /\ wPc \in {"idle", "responded"}
  /\ \E r \in WhisperRequests :
       /\ wReq' = r
       /\ IF WhisperGate(r) # 0
            THEN /\ wRes' = ErrorAnswer(WhisperGate(r))
                 /\ wOutbound' = << >>
                 /\ wPc' = "responded"
            ELSE /\ wRes' = NoResponse
                 /\ wOutbound' =
                      << [method |-> "POST", url |-> WhisperUrl,
                          contentType |-> HandlerContentType(r.mimetype)] >>
                 /\ wPc' = "post"
  /\ wData' = NoData
  /\ UNCHANGED << transcribeVars, concVars, retryVars, restVars >>

\* the Whisper call returns: the transcript is extracted and the request
\* answered (reading a member of null throws a TypeError)
WhisperReturns ==
  /\ wPc = "post"
  /\ \/ \E f \in WhisperFailures :
          /\ wData' = NoData
          /\ wRes' = Caught(f.message)
     \/ \E d \in WhisperData :
          /\ wData' = d
          /\ wRes' = IF d.shape = "null"
                       THEN Caught("Cannot read properties of null (reading 'text')")
                     ELSE IF Transcription(d) = ""
                       THEN Caught(NoTranscriptionMessage)
                     ELSE Success(Transcription(d))
  /\ wPc' = "responded"
  /\ UNCHANGED << wReq, wOutbound >>
  /\ UNCHANGED << transcribeVars, concVars, retryVars, restVars >>

WhisperNext ==
  \/ WhisperUploadAudio
  \/ WhisperReturns

WhisperSpec == Init /\ [][WhisperNext]_vars

(***************************************************************************)
(* transcribeWithAssemblyAI, several invocations at the same time.         *)
(***************************************************************************)
\* the variable is one binding shared by all invocations
Local_Shared(f, c, v) == [x \in DOMAIN f |-> v]

\* an assignment to a const or let of invocation c: every invocation of the
\* function has bindings of its own
Local(f, c, v) == [f EXCEPT ![c] = v]

\* invocation c awaits a call or a timer
Awaits(c) ==
  \/ cPc[c] \in {"upload", "create", "status"}
  \/ cPc[c] = "sleep" /\ cSent[c] < 2 + ConcMaxPolls

\* what invocation c awaits settles next: the event loop resumes c, and
\* Date.now() is the time at which it settled
Resumes(c) ==
  /\ Awaits(c)
  /\ \A d \in Callers : Awaits(d) => cDue[c] <= cDue[d]
  /\ cNow' = cDue[c]

\* invocation c issues an outbound call that takes lat ms
Sends(c, lat) ==
  /\ cSent' = [cSent EXCEPT ![c] = @ + 1]
  /\ cLat' = [cLat EXCEPT ![c] = lat]
  /\ cDue' = [cDue EXCEPT ![c] = cNow' + lat]

\* invocation c ends with the result r
Ends(c, r) ==
  /\ cPc' = [cPc EXCEPT ![c] = "done"]
  /\ cResult' = [cResult EXCEPT ![c] = r]
  /\ UNCHANGED << cSent, cLat, cDue >>

\* invocation c received a response
Received(c, f, b) ==
  cHist' = [cHist EXCEPT ![c] = Append(@, Response(cLat[c], f, b))]

\* a request calls transcribeWithAssemblyAI: the upload call is issued
ConcTranscribe(c) ==
  /\ cPc[c] = "idle"
  /\ cNow' = cNow
  /\ cPc' = [cPc EXCEPT ![c] = "upload"]
  /\ \E lat \in Latencies : Sends(c, lat)
  /\ UNCHANGED << cId, cStatus, cText, cStart, cResult, cJobs, cCreated,
                  cPolled, cHist, cGone >>
  /\ UNCHANGED << transcribeVars, whisperVars, retryVars, restVars >>

\* the upload call of invocation c returns (the job-create call that
\* follows a success is answered at once)
ConcUploadReturns(c) ==
  /\ cPc[c] = "upload"
  /\ Resumes(c)
  /\ \/ /\ Received(c, NoFailure, NoBody)
        /\ cPc' = [cPc EXCEPT ![c] = "create"]
        /\ Sends(c, 0)
        /\ UNCHANGED cResult
     \/ \E f \in ConcFailures :
          /\ Received(c, Failed("upload", f), NoBody)
          /\ Ends(c, AxiosError(f))
  /\ UNCHANGED << cId, cStatus, cText, cStart, cJobs, cCreated, cPolled,
                  cGone >>
  /\ UNCHANGED << transcribeVars, whisperVars, retryVars, restVars >>

\* the job-create call of invocation c returns: on success the locals of
\* the poll loop are set and the first timer is started
ConcCreateReturns(c) ==
  /\ cPc[c] = "create"
  /\ Resumes(c)
  /\ \/ /\ Received(c, NoFailure, NoBody)
        /\ cJobs' = cJobs + 1
        /\ cCreated' = [cCreated EXCEPT ![c] = cJobs + 1]
        /\ cId' = Local(cId, c, cJobs + 1)
        /\ cStatus' = Local(cStatus, c, "queued")
        /\ cText' = Local(cText, c, "")
        /\ cStart' = Local(cStart, c, cNow')
        /\ cPc' = [cPc EXCEPT ![c] = "sleep"]
        /\ cDue' = [cDue EXCEPT ![c] = cNow' + PollIntervalMs]
        /\ UNCHANGED << cSent, cLat, cResult >>
     \/ \E f \in ConcFailures :
          /\ Received(c, Failed("create", f), NoBody)
          /\ Ends(c, AxiosError(f))
          /\ UNCHANGED << cJobs, cCreated, cId, cStatus, cText, cStart >>
  /\ UNCHANGED << cPolled, cGone >>
  /\ UNCHANGED << transcribeVars, whisperVars, retryVars, restVars >>

\* the timer of invocation c fires: the status call is issued for its
\* transcriptId
ConcSleepEnds(c) ==
  /\ cPc[c] = "sleep"
  /\ Resumes(c)
  /\ cPc' = [cPc EXCEPT ![c] = "status"]
  /\ cPolled' = [cPolled EXCEPT ![c] = cId[c]]
  /\ \E lat \in ConcStatusLatencies : Sends(c, lat)
  /\ UNCHANGED << cId, cStatus, cText, cStart, cResult, cJobs, cCreated,
                  cHist, cGone >>
  /\ UNCHANGED << transcribeVars, whisperVars, retryVars, restVars >>

\* the status call of invocation c returns
ConcStatusReturns(c) ==
  /\ cPc[c] = "status"
  /\ Resumes(c)
  /\ \/ \E f \in ConcFailures :
          /\ Received(c, Failed("status", f), NoBody)
          /\ Ends(c, AxiosError(f))
          /\ UNCHANGED << cStatus, cText >>
     \/ \E b \in ConcBodies :
          /\ Received(c, NoFailure, b)
          /\ cStatus' = Local(cStatus, c, b.status)
          /\ CASE b.status = "completed" ->
                    /\ cText' = Local(cText, c, b.text)
                    /\ Ends(c, AfterLoop(cText'[c]))
               [] b.status = "error" ->
                    /\ cText' = cText
                    /\ Ends(c, Threw(RemoteFailedMessage(b.error), 0))
               [] OTHER ->
                    /\ cText' = cText
                    /\ IF LoopContinues(cStatus'[c], cNow' - cStart[c])
                         THEN /\ cPc' = [cPc EXCEPT ![c] = "sleep"]
                              /\ cDue' = [cDue EXCEPT ![c] = cNow' + PollIntervalMs]
                              /\ UNCHANGED << cSent, cLat, cResult >>
                         ELSE Ends(c, AfterLoop(cText[c]))
  /\ UNCHANGED << cId, cStart, cJobs, cCreated, cPolled, cGone >>
  /\ UNCHANGED << transcribeVars, whisperVars, retryVars, restVars >>

\* the client of the request served by invocation c disconnects while the
\* invocation is suspended: the route registers no handler for it and the
\* function takes no abort signal
ClientGone(c) ==
  /\ cPc[c] \in {"upload", "create", "sleep", "status"}
  /\ ~cGone[c]
  /\ cGone' = [cGone EXCEPT ![c] = TRUE]
  /\ UNCHANGED << cNow, cPc, cDue, cLat, cSent, cId, cStatus, cText, cStart,
                  cResult, cJobs, cCreated, cPolled, cHist >>
  /\ UNCHANGED << transcribeVars, whisperVars, retryVars, restVars >>

\* the result of one invocation that runs alone and receives the responses
\* h[i], h[i+1], ...: stage is the call it awaits, t the time since it was
\* called and start its startTime
RECURSIVE Run(_, _, _, _, _)
Run(h, i, stage, t, start) ==
  IF i > Len(h) THEN NoResult
  ELSE
    LET e == h[i] IN
    IF e.fail # NoFailure THEN AxiosError(e.fail)
    ELSE
      CASE stage = "upload" -> Run(h, i + 1, "create", t + e.lat, 0)
        [] stage = "create" -> Run(h, i + 1, "status", t + e.lat, t + e.lat)
        [] OTHER ->
             LET t2 == t + PollIntervalMs + e.lat IN
             CASE e.body.status = "completed" -> AfterLoop(e.body.text)
               [] e.body.status = "error" ->
                    Threw(RemoteFailedMessage(e.body.error), 0)
               [] OTHER ->
                    IF LoopContinues(e.body.status, t2 - start)
                      THEN Run(h, i + 1, "status", t2, start)
                      ELSE AfterLoop("")

Alone(h) == Run(h, 1, "upload", 0, 0)

ConcNext ==
  \E c \in Callers :
    \/ ConcTranscribe(c)
    \/ ConcUploadReturns(c)
    \/ ConcCreateReturns(c)
    \/ ConcSleepEnds(c)
    \/ ConcStatusReturns(c)
    \/ ClientGone(c)

ConcSpec == Init /\ [][ConcNext]_vars

(***************************************************************************)
(* queryAI: one outbound call, retried after a delay.                      *)
(***************************************************************************)
RateLimitMessage == "Free tier rate limit reached. Try again later."

KeyMissing(variant) ==
  CHOOSE e \in QueryErrors :
    e.message = IF variant = "groq" THEN "Groq API key not configured"
                ELSE "Hugging Face API key not configured"

InvalidFormat ==
  CHOOSE e \in QueryErrors : e.message = "Invalid response format from Groq API"

\* what the axios.post of an attempt can reject with
PostFailures == { e \in QueryErrors : e.httpStatus # 0 \/ e.message = "Network Error" }

\* 1000, 2000, 4000, ...: each delay doubles
Delay_Doubling(retries) == BackoffUnitMs * 2 ^ (DefaultRetries - retries)

\* 1000 * (4 - retries)
Delay(retries) == BackoffUnitMs * (4 - retries)

\* whatever was caught, the error thrown at the end has a fixed message
Catch_GenericMessage(e, retries) ==
  /\ qLog' = Append(qLog, e)
  /\ IF qVariant' = "huggingface" /\ e.httpStatus = 429
       THEN /\ qPc' = "done"
            /\ qResult' = Threw(RateLimitMessage, 0)
            /\ qDelays' = qDelays
       ELSE IF retries > 0 /\ e.httpStatus # 401
         THEN /\ qPc' = "sleep"
              /\ qResult' = qResult
              /\ qDelays' = Append(qDelays, Delay(retries))
         ELSE /\ qPc' = "done"
              /\ qResult' = Threw("Failed to process AI request", 0)
              /\ qDelays' = qDelays

\* a 401 is retried like any other error
Catch_RetryUnauthorized(e, retries) ==
  /\ qLog' = Append(qLog, e)
  /\ IF qVariant' = "huggingface" /\ e.httpStatus = 429
       THEN /\ qPc' = "done"
            /\ qResult' = Threw(RateLimitMessage, 0)
            /\ qDelays' = qDelays
       ELSE IF retries > 0
         THEN /\ qPc' = "sleep"
              /\ qResult' = qResult
              /\ qDelays' = Append(qDelays, Delay(retries))
         ELSE /\ qPc' = "done"
              /\ qResult' = Threw(e.message, 0)
              /\ qDelays' = qDelays

\* catch (error) of the invocation with the argument retries: the rate
\* limit ends the Hugging Face variant at once; otherwise the timer is set
\* while retries are left and the error is no 401; otherwise the error is
\* thrown
Catch(e, retries) ==
  /\ qLog' = Append(qLog, e)
  /\ IF qVariant' = "huggingface" /\ e.httpStatus = 429
       THEN /\ qPc' = "done"
            /\ qResult' = Threw(RateLimitMessage, 0)
            /\ qDelays' = qDelays
       ELSE IF retries > 0 /\ e.httpStatus # 401
         THEN /\ qPc' = "sleep"
              /\ qResult' = qResult
              /\ qDelays' = Append(qDelays, Delay(retries))
         ELSE /\ qPc' = "done"
              /\ qResult' = Threw(e.message, 0)
              /\ qDelays' = qDelays

\* the try block of the invocation with the argument retries, up to its
\* await: without the key it throws, with it the call is issued
Attempt(retries) ==
  /\ qRetries' = retries
  /\ IF qKey'
       THEN /\ qPc' = "post"
            /\ qAttempts' = qAttempts + 1
            /\ UNCHANGED << qDelays, qLog, qResult >>
       ELSE /\ qAttempts' = qAttempts
            /\ Catch(KeyMissing(qVariant'), retries)

\* the /ask-ai handler calls queryAI(prompt)
QueryAI ==
  /\ qPc = "idle"
  /\ \E v \in QueryVariants : qVariant' = v
  /\ \E k \in BOOLEAN : qKey' = k
  /\ Attempt(DefaultRetries)
  /\ UNCHANGED << transcribeVars, whisperVars, concVars, restVars >>

\* String.prototype.trim: whitespace is removed from both ends
RECURSIVE Trim(_)
Trim(s) ==
  IF Len(s) = 0 THEN s
  ELSE IF SubSeq(s, 1, 1) = " " THEN Trim(SubSeq(s, 2, Len(s)))
  ELSE IF SubSeq(s, Len(s), Len(s)) = " " THEN Trim(SubSeq(s, 1, Len(s) - 1))
  ELSE s

\* v?.trim() throws a TypeError: v is neither absent nor a string
TrimThrows(v) == v.type = "number"

\* !v?.trim(), for a v on which trim does not throw
Blank(v) == v.type = "undefined" \/ Trim(v.str) = ""

\* the message of that TypeError
TrimIsNotAFunction(name) == name \o "?.trim is not a function"

\* catch (error) of the /ask-ai handler: statusCode
AskStatus(variant, message) ==
  IF Includes(message, "API key") THEN 401
  ELSE IF variant # "groq" /\ Includes(message, "rate limit") THEN 429
  ELSE 500

\* the HTTP status with which the handler answers the body b before it calls
\* queryAI, 0 when it calls it:
\* if (!question?.trim() || !pdfText?.trim()) return res.status(400)...
AskGate(b) ==
  IF TrimThrows(b.question)
    THEN AskStatus("huggingface", TrimIsNotAFunction("question"))
  ELSE IF Blank(b.question) THEN 400
  ELSE IF TrimThrows(b.pdfText)
    THEN AskStatus("huggingface", TrimIsNotAFunction("pdfText"))
  ELSE IF Blank(b.pdfText) THEN 400
  ELSE 0

\* AskGate, tabulated over the bodies
AskGateOf == [b \in AskBodies |-> AskGate(b)]

\* app.post('/ask-ai') receives a request: it is answered at once, or
\* queryAI(prompt) is called
AskAI ==
  /\ qPc = "idle"
  /\ \E b \in AskBodies :
       /\ aReq' = b
       /\ IF AskGateOf[b] = 0
            THEN /\ QueryAI
                 /\ aInvoked' = 1
            ELSE /\ aInvoked' = 0
                 /\ UNCHANGED << qVariant, qKey, qPc, qRetries, qAttempts,
                                 qDelays, qLog, qResult >>
                 /\ UNCHANGED << transcribeVars, whisperVars, concVars, restVars >>

\* the status of the HTTP response to the /ask-ai request (0: none yet)
AskHttpStatus ==
  IF aReq = NoAsk THEN 0
  ELSE IF AskGateOf[aReq] # 0 THEN AskGateOf[aReq]
  ELSE IF qPc # "done" THEN 0
  ELSE IF qResult.kind = "ok" THEN 200
  ELSE AskStatus(qVariant, qResult.message)

\* the axios.post of the attempt returns: an answer is returned, anything
\* else is caught
PostReturns ==
  /\ qPc = "post"
  /\ UNCHANGED << qVariant, qKey, qRetries, qAttempts, aReq, aInvoked >>
  /\ \/ /\ qPc' = "done"
        /\ qResult' = Returned("answer")
        /\ UNCHANGED << qDelays, qLog >>
     \/ \E e \in PostFailures : Catch(e, qRetries)
     \/ qVariant = "groq" /\ Catch(InvalidFormat, qRetries)
  /\ UNCHANGED << transcribeVars, whisperVars, concVars, restVars >>

\* the timer fires: return queryAI(prompt, retries - 1)
RetrySleepEnds ==
  /\ qPc = "sleep"
  /\ UNCHANGED << qVariant, qKey, aReq, aInvoked >>
  /\ Attempt(qRetries - 1)
  /\ UNCHANGED << transcribeVars, whisperVars, concVars, restVars >>

RetryNext ==
  \/ AskAI
  \/ PostReturns
  \/ RetrySleepEnds

RetrySpec == Init /\ [][RetryNext]_vars

\* every outbound call returns or fails (timeout: 30000) and timers fire
FairRetrySpec ==
  /\ RetrySpec
  /\ WF_vars(PostReturns)
  /\ WF_vars(RetrySleepEnds)

(***************************************************************************)
(* queryAI with the fallback model (src/server.js:334-405): an invocation  *)
(* posts to the primary model; when that fails and retries are left it     *)
(* sleeps, posts to the fallback model, and when that fails too calls      *)
(* itself with retries - 1.                                                *)
(***************************************************************************)
PrimaryModel == "mixtral-8x7b-32768"
FallbackModel == "llama3-70b-8192"

\* response.data.choices[0] of a 2xx answer without choices
NoChoices ==
  [ok |-> FALSE, httpStatus |-> 0,
   message |-> "Cannot read properties of undefined (reading '0')"]

\* how a call of either model fails
ModelFailures == PostFailures \cup {NoChoices}

\* the outer catch never posts to the fallback model
FallbackCatch_NoFallback(e, retries) ==
  /\ fLog' = Append(fLog, e)
  /\ fPc' = "done"
  /\ fResult' = Threw(e.message, 0)
  /\ fDelays' = fDelays

\* catch (error) of the invocation with the argument retries: with retries
\* left the timer is set (the fallback model is posted to when it fires),
\* otherwise the error of the primary attempt is thrown
FallbackCatch(e, retries) ==
  /\ fLog' = Append(fLog, e)
  /\ IF retries > 0
       THEN /\ fPc' = "sleep"
            /\ fResult' = fResult
            /\ fDelays' = Append(fDelays, Delay(retries))
       ELSE /\ fPc' = "done"
            /\ fResult' = Threw(e.message, 0)
            /\ fDelays' = fDelays

\* the try block of the invocation with the argument retries, up to its
\* await: the key is checked, then the primary model is posted to
PrimaryAttempt(retries) ==
  /\ fRetries' = retries
  /\ fSource' = fSource
  /\ IF fKey'
       THEN /\ fPc' = "primary"
            /\ fCalls' = Append(fCalls, PrimaryModel)
            /\ UNCHANGED << fDelays, fLog, fResult >>
       ELSE /\ fCalls' = fCalls
            /\ FallbackCatch(KeyMissing("groq"), retries)

\* queryAI(prompt) is called by the /ask-ai handler
FallbackQueryAI ==
  /\ fPc = "idle"
  /\ \E k \in BOOLEAN :
       /\ fKey' = k
       /\ PrimaryAttempt(DefaultRetries)
  /\ UNCHANGED << transcribeVars, whisperVars, concVars, retryVars,
                  healthVars, listenVars >>

\* the post to the primary model returns
PrimaryReturns ==
  /\ fPc = "primary"
  /\ UNCHANGED << fKey, fRetries, fCalls >>
  /\ \/ /\ fPc' = "done"
        /\ fResult' = Returned("answer")
        /\ fSource' = "groq"
        /\ UNCHANGED << fDelays, fLog >>
     \/ /\ fSource' = fSource
        /\ \E e \in ModelFailures : FallbackCatch(e, fRetries)
  /\ UNCHANGED << transcribeVars, whisperVars, concVars, retryVars,
                  healthVars, listenVars >>

\* the timer of the catch block fires: the fallback model is posted to,
\* whether or not the key is set
FallbackSleepEnds ==
  /\ fPc = "sleep"
  /\ fPc' = "fallback"
  /\ fCalls' = Append(fCalls, FallbackModel)
  /\ UNCHANGED << fKey, fRetries, fDelays, fLog, fResult, fSource >>
  /\ UNCHANGED << transcribeVars, whisperVars, concVars, retryVars,
                  healthVars, listenVars >>

\* the post to the fallback model returns; the service answers a request
\* that carries no key with an error
FallbackReturns ==
  /\ fPc = "fallback"
  /\ fKey' = fKey
  /\ \/ /\ fKey
        /\ fPc' = "done"
        /\ fResult' = Returned("answer")
        /\ fSource' = "groq-fallback"
        /\ UNCHANGED << fRetries, fCalls, fDelays, fLog >>
     \/ PrimaryAttempt(fRetries - 1)
  /\ UNCHANGED << transcribeVars, whisperVars, concVars, retryVars,
                  healthVars, listenVars >>

FallbackNext ==
  \/ FallbackQueryAI
  \/ PrimaryReturns
  \/ FallbackSleepEnds
  \/ FallbackReturns

FallbackSpec == Init /\ [][FallbackNext]_vars

\* the status with which the /ask-ai handler of this revision answers
\* (0: not yet)
FallbackAskStatus ==
  IF fPc # "done" THEN 0
  ELSE IF fResult.kind = "ok" THEN 200
  ELSE AskStatus("groq-fallback", fResult.message)

(***************************************************************************)
(* GET /health: the report is built from the environment, each configured  *)
(* backend is probed with an axios.get, and the report is sent.            *)
(***************************************************************************)
HealthVariants == {"huggingface", "groq-assemblyai", "groq"}

\* how a probe fails
ProbeFailures == PostFailures

\* a promise the handler returned was rejected: Express 4 leaves the
\* request unanswered, Express 5 passes the error to the error middleware
\* (src/server.js:658-664), which answers 500 'Internal server error'
Rejections == {"unanswered", "error500"}

\* health.services as the handler builds it before the probes
InitialText(key) == IF key THEN "configured" ELSE "missing_api_key"
InitialAudio(variant, textKey, audioKey) ==
  IF variant = "huggingface"
    THEN (IF textKey THEN "available" ELSE "requires_api_key")
  ELSE IF variant = "groq" THEN "not_implemented"
  ELSE (IF audioKey THEN "configured" ELSE "missing_api_key")

\* the body of a health report
Report(text, audio) == [error |-> "", text |-> text, audio |-> audio]

\* res.status(500).json({ error: 'Internal server error', ... })
InternalServerError ==
  [error |-> "Internal server error", text |-> "", audio |-> ""]

\* res.json(health)
SendReport ==
  /\ hPc' = "done"
  /\ hReports' = hReports + 1
  /\ hErrors' = hErrors
  /\ hLog' = Append(hLog, Report(hText', hAudio'))

\* health.warnings.push(...): the array is health.services.warnings, so
\* health.warnings is undefined and the call throws a TypeError inside the
\* catch block; the promise of the handler is rejected
PushWarning ==
  \E r \in Rejections :
    /\ hPc' = r
    /\ hReports' = hReports
    /\ hErrors' = IF r = "error500" THEN hErrors + 1 ELSE hErrors
    /\ hLog' = IF r = "error500" THEN Append(hLog, InternalServerError)
                ELSE hLog

\* the AssemblyAI part of the handler (src/server.js:641-652), up to its
\* await
ProbeAudio ==
  IF hAudioKey'
    THEN hPc' = "probe_audio" /\ UNCHANGED << hReports, hErrors, hLog >>
    ELSE SendReport

\* app.get('/health') receives a request
HealthGet ==
  /\ hPc \in {"idle", "done", "unanswered", "error500"}
  /\ hReqs < MaxHealthRequests
  /\ hReqs' = hReqs + 1
  /\ \E v \in HealthVariants, tk \in BOOLEAN, ak \in BOOLEAN :
       /\ v # "groq-assemblyai" => ak = FALSE
       /\ hVariant' = v /\ hTextKey' = tk /\ hAudioKey' = ak
       /\ hText' = InitialText(tk)
       /\ hAudio' = InitialAudio(v, tk, ak)
       /\ hError' = "" /\ hFailed' = {}
       /\ hErrors' = 0
       /\ IF tk \/ ak
            THEN /\ hPc' = IF tk THEN "probe_text" ELSE "probe_audio"
                 /\ hReports' = 0
                 /\ hLog' = hLog
            ELSE /\ hPc' = "done"
                 /\ hReports' = 1
                 /\ hLog' = Append(hLog, Report(hText', hAudio'))
  /\ UNCHANGED << transcribeVars, whisperVars, concVars, retryVars,
                  fallbackVars, listenVars >>

\* the probe of the text-generation service returns
ProbeTextReturns ==
  /\ hPc = "probe_text"
  /\ UNCHANGED << hVariant, hTextKey, hAudioKey, hAudio, hReqs >>
  /\ \/ \E data \in BOOLEAN :
          /\ hFailed' = hFailed /\ hError' = hError
          /\ IF hVariant = "groq-assemblyai"
               THEN hText' = hText /\ ProbeAudio
               ELSE /\ hText' = IF data THEN "operational" ELSE "unavailable"
                    /\ SendReport
     \/ \E e \in ProbeFailures :
          /\ hFailed' = hFailed \cup {"text"}
          /\ hText' = "connection_failed"
          /\ IF hVariant = "groq-assemblyai"
               THEN hError' = hError /\ PushWarning
               ELSE hError' = e.message /\ SendReport
  /\ UNCHANGED << transcribeVars, whisperVars, concVars, retryVars,
                  fallbackVars, listenVars >>

\* the probe of AssemblyAI returns
ProbeAudioReturns ==
  /\ hPc = "probe_audio"
  /\ UNCHANGED << hVariant, hTextKey, hAudioKey, hText, hError, hReqs >>
  /\ \/ /\ hFailed' = hFailed /\ hAudio' = hAudio
        /\ SendReport
     \/ \E e \in ProbeFailures :
          /\ hFailed' = hFailed \cup {"audio"}
          /\ hAudio' = "connection_failed"
          /\ PushWarning
  /\ UNCHANGED << transcribeVars, whisperVars, concVars, retryVars,
                  fallbackVars, listenVars >>

HealthNext ==
  \/ HealthGet
  \/ ProbeTextReturns
  \/ ProbeAudioReturns

HealthSpec == Init /\ [][HealthNext]_vars

(***************************************************************************)
(* The listen button.  The SpeechRecognition object is inactive until      *)
(* start() is called, then starting until its start event fires, then      *)
(* listening; a result, an error, silence or stop() make it ending, and    *)
(* its end event makes it inactive again (continuous = false).             *)
(***************************************************************************)
ClientVariants == {"script.js", "part_001"}
Transcripts == {"what is this", "summarize"}
RecognitionErrors == {"no-speech", "network"}

\* recognition has been started and has not ended
Active == lRec # "inactive"

\* recognition.start(): it throws InvalidStateError when already started
Start ==
  /\ lStarts' = lStarts + 1
  /\ lBadStarts' = IF Active THEN lBadStarts + 1 ELSE lBadStarts
  /\ lRec' = IF Active THEN lRec ELSE "starting"
  /\ UNCHANGED << lStops, lBadStops >>

\* recognition.stop(): it is ignored when recognition is not active
Stop ==
  /\ lStops' = lStops + 1
  /\ lBadStops' = IF Active THEN lBadStops ELSE lBadStops + 1
  /\ lRec' = IF Active THEN "ending" ELSE lRec
  /\ UNCHANGED << lStarts, lBadStarts >>

\* the page is loaded with one revision of the client
PageLoads ==
  /\ lVariant = "none"
  /\ \E v \in ClientVariants : lVariant' = v
  /\ UNCHANGED << lRec, lButton, isListening, lQuestion, lAlert, lStarts,
                  lStops, lBadStarts, lBadStops, lClicks >>
  /\ UNCHANGED << transcribeVars, whisperVars, concVars, retryVars,
                  fallbackVars, healthVars >>

\* toggleListening (src/public/script.js:81-105): the label decides; the
\* label is not changed when start() throws
toggleListening ==
  /\ lVariant = "script.js"
  /\ isListening' = isListening
  /\ IF Includes(lButton, "Start")
       THEN /\ Start
            /\ lButton' = IF Active THEN lButton ELSE Listening
       ELSE /\ Stop
            /\ lButton' = StartListening

\* toggleSpeechRecognition (src/unnamed/part_001:142-178): the flag decides
toggleSpeechRecognition ==
  /\ lVariant = "part_001"
  /\ UNCHANGED << lButton, isListening >>
  /\ IF isListening THEN Stop ELSE Start

\* a click on the listen button
Click ==
  /\ lClicks < MaxClicks
  /\ lClicks' = lClicks + 1
  /\ toggleListening \/ toggleSpeechRecognition
  /\ UNCHANGED << lVariant, lQuestion, lAlert >>
  /\ UNCHANGED << transcribeVars, whisperVars, concVars, retryVars,
                  fallbackVars, healthVars >>

\* recognition.onstart; script.js sets no handler for it
OnStart ==
  /\ lRec = "starting"
  /\ lRec' = "listening"
  /\ IF lVariant = "part_001"
       THEN isListening' = TRUE /\ lButton' = Listening /\ lAlert' = "info"
       ELSE UNCHANGED << isListening, lButton, lAlert >>
  /\ UNCHANGED << lVariant, lQuestion, lStarts, lStops, lBadStarts,
                  lBadStops, lClicks >>
  /\ UNCHANGED << transcribeVars, whisperVars, concVars, retryVars,
                  fallbackVars, healthVars >>

\* recognition.onresult: the transcript becomes the question; recognition
\* then ends by itself
OnResult ==
  /\ lRec = "listening"
  /\ lRec' = "ending"
  /\ \E t \in Transcripts : lQuestion' = t
  /\ lAlert' = IF lVariant = "part_001" THEN "success" ELSE lAlert
  /\ UNCHANGED << lVariant, lButton, isListening, lStarts, lStops,
                  lBadStarts, lBadStops, lClicks >>
  /\ UNCHANGED << transcribeVars, whisperVars, concVars, retryVars,
                  fallbackVars, healthVars >>

\* recognition.onerror: the error is shown; recognition then ends
OnError ==
  /\ lRec \in {"starting", "listening"}
  /\ lRec' = "ending"
  /\ \E e \in RecognitionErrors : lAlert' = e
  /\ UNCHANGED << lVariant, lButton, isListening, lQuestion, lStarts, lStops,
                  lBadStarts, lBadStops, lClicks >>
  /\ UNCHANGED << transcribeVars, whisperVars, concVars, retryVars,
                  fallbackVars, healthVars >>

\* recognition ends (after a result, an error, stop() or by itself) and
\* its end event fires; script.js sets no handler for it
OnEnd ==
  /\ lRec \in {"listening", "ending"}
  /\ lRec' = "inactive"
  /\ IF lVariant = "part_001"
       THEN isListening' = FALSE /\ lButton' = StartListening
       ELSE UNCHANGED << isListening, lButton >>
  /\ UNCHANGED << lVariant, lQuestion, lAlert, lStarts, lStops, lBadStarts,
                  lBadStops, lClicks >>
  /\ UNCHANGED << transcribeVars, whisperVars, concVars, retryVars,
                  fallbackVars, healthVars >>

ListenNext ==
  \/ PageLoads
  \/ Click
  \/ OnStart
  \/ OnResult
  \/ OnError
  \/ OnEnd

ListenSpec == Init /\ [][ListenNext]_vars

(***************************************************************************)
(* Properties.                                                             *)
(***************************************************************************)
Elapsed == now - startTime
InLoop == pc \in {"sleep", "status"}
TimedOut == pc = "done" /\ result = Threw("Transcription timed out", 0)

\* C1: within one call the outbound calls are ordered Upload -> Create ->
\* Poll*: at most one upload and one job-create call are ever issued, the
\* create call only with the url a successful upload returned, every status
\* poll only for the job id the create call returned, and a call that polls
\* or returns a text has issued exactly one of each; the remote never holds
\* more jobs than there were calls.
C1_UploadCreatePollOrder ==
  /\ uploads <= 1 /\ creates <= 1
  /\ remoteJobs <= callNo
  /\ pc = "upload" => (uploads = 1 /\ creates = 0 /\ polls = 0)
  /\ creates = 1 => (uploads = 1 /\ uploadUrl # "")
  /\ pc = "create" => (creates = 1 /\ polls = 0 /\ transcriptId = 0)
  /\ polls > 0 => (creates = 1 /\ transcriptId # 0 /\ polledId = transcriptId)
  /\ (InLoop \/ result.kind = "ok") =>
        (uploads = 1 /\ creates = 1 /\ transcriptId # 0)

C1_Witness ==
  pc = "done" /\ result.kind = "ok" /\ polls = 3 /\ uploads = 1 /\ creates = 1

\* C2 as claimed: whenever the status call that follows k non-terminal
\* answers is answered `completed` with a text t, whatever t is, the call
\* returns t after exactly k+1 status calls, each issued at least the poll
\* interval after the previous one returned.
C2_AnyTextReturned ==
  /\ (pc = "done" /\ lastBody.status = "completed") =>
        (result = Returned(lastBody.text) /\ polls = nonTerminal + 1)
  /\ pc = "status" => now - lastReturnAt >= PollIntervalMs

\* C2 as amended: whenever the status call that follows k non-terminal
\* answers is answered `completed` with a non-empty text t, the call returns
\* t after exactly k+1 status calls, each issued at least the poll interval
\* (1000 ms) after the previous one returned (or after the loop began).
C2_CompletedAfterKPolls ==
  /\ (pc = "done" /\ lastBody.status = "completed" /\ lastBody.text # "") =>
        /\ result.kind = "ok"
        /\ result.text = lastBody.text
        /\ polls = nonTerminal + 1
  /\ pc = "status" => now - lastReturnAt >= 1000

C2_Witness ==
  /\ pc = "done" /\ nonTerminal = 3 /\ polls = 4
  /\ lastBody.status = "completed" /\ result.text = "done"

\* C3: once a status poll is answered `error` with reason r, the call has
\* failed with an error whose message carries r, and that poll was its last
\* outbound call.
C3_RemoteErrorFailsAtOnce ==
  lastBody.status = "error" =>
     /\ pc = "done"
     /\ result.kind = "threw"
     /\ result.message = "Transcription failed: " \o lastBody.error
     /\ polls = nonTerminal + 1
     /\ uploads = 1 /\ creates = 1

C3_Witness ==
  /\ lastBody.status = "error" /\ lastBody.error = "corrupt audio"
  /\ nonTerminal = 2 /\ pc = "done"
  /\ result.message = "Transcription failed: corrupt audio"

\* C4: provided timers fire and outbound calls return, a call that is in the
\* poll loop always comes to an end; and a call that has ended with every
\* one of its status polls answered queued/processing has thrown the
\* timed-out error, no sooner than 180000 ms after the loop began, with the
\* remote job still not terminal.
C4_TimesOutEventually ==
  /\ [](InLoop => <>(pc = "done"))
  /\ []((pc = "done" /\ polls > 0 /\ nonTerminal = polls) =>
          /\ TimedOut
          /\ Elapsed >= MaxWaitMs
          /\ lastBody.status \in NonTerminal)

C4_Witness ==
  TimedOut /\ lastBody.status = "processing" /\ nonTerminal = polls /\ polls > 100

\* C5 as claimed, with the code's maxWait m = 180000 and interval p = 1000:
\* a call whose polls were all answered queued/processing times out after at
\* most m/p + 1 polls (3 for m = 2000, p = 1000) and no later than m plus
\* the latency of one poll (the largest of the call) after the loop began.
C5_WithinMaxWaitPlusLatency ==
  (TimedOut /\ nonTerminal = polls) =>
     /\ polls <= MaxWaitMs \div PollIntervalMs + 1
     /\ Elapsed <= MaxWaitMs + maxLat

\* C5 as amended: such a call times out after at most m/p + 1 polls and
\* earlier than m + p plus the latency of its last poll after the loop
\* began: an iteration begun just before the deadline still sleeps p and
\* awaits its status call.
C5_WithinMaxWaitPlusSleepAndLatency ==
  (TimedOut /\ nonTerminal = polls) =>
     /\ polls <= MaxWaitMs \div PollIntervalMs + 1
     /\ Elapsed < MaxWaitMs + PollIntervalMs + lastLat

C5_Witness ==
  TimedOut /\ nonTerminal = polls /\ Elapsed > MaxWaitMs + maxLat

\* C6: the loop condition is evaluated once before every sleep/fetch
\* iteration, and an iteration is begun only if the elapsed time read there
\* is below 180000 ms; when it reads 180000 ms or more (a deadline exactly on
\* a poll boundary included) no sleep or status call follows and the call
\* ends.
C6_DeadlineCheckedBeforeEachIteration ==
  /\ InLoop => (0 <= checkedElapsed /\ checkedElapsed < MaxWaitMs)
  /\ pc = "sleep" => (checks = polls + 1 /\ checkedElapsed = Elapsed)
  /\ pc = "status" => checks = polls
  /\ checkedElapsed >= MaxWaitMs => (TimedOut /\ checks = polls + 1)

C6_Witness ==
  checkedElapsed = MaxWaitMs /\ pc = "done" /\ polls = MaxWaitMs \div PollIntervalMs

\* C7: a call whose status poll was answered `completed` with no text fails
\* with an error other than the one thrown when the deadline passes.
C7_EmptyResultDistinctFromTimeout ==
  (pc = "done" /\ lastBody.status = "completed" /\ lastBody.text = "") =>
     /\ result.kind = "threw"
     /\ result # Threw("Transcription timed out", 0)

\* C8: once the upload call or the job-create call of a call has failed, the
\* call has ended by throwing that failure, the failed call was issued once
\* only, and nothing of a later phase was issued: no create after a failed
\* upload, no job id and no poll after a failed create.
C8_UploadOrCreateFailureIsTerminal ==
  failure.call \in {"upload", "create"} =>
     /\ pc = "done"
     /\ result = Threw(failure.message, failure.httpStatus)
     /\ uploads = 1
     /\ creates = (IF failure.call = "upload" THEN 0 ELSE 1)
     /\ polls = 0 /\ transcriptId = 0

C8_Witness ==
  failure.call = "create" /\ failure.httpStatus = 500 /\ pc = "done"

\* C9: once a status call has failed (no response, or a non-2xx one such as
\* 429), the call has ended by throwing that failure, not the timed-out
\* error, and the failed status call was its last one.
C9_PollFailureIsTerminal ==
  failure.call = "status" =>
     /\ pc = "done"
     /\ result = Threw(failure.message, failure.httpStatus)
     /\ result.message # "Transcription timed out"
     /\ polls = nonTerminal + 1

C9_Witness ==
  failure.call = "status" /\ failure.httpStatus = 429 /\ nonTerminal = 2 /\ pc = "done"

\* the position of a call along Created -> Uploading -> JobCreated ->
\* Polling -> {Completed, Failed, TimedOut}
Rank(p) ==
  CASE p = "idle" -> 0
    [] p = "upload" -> 1
    [] p = "create" -> 2
    [] p \in {"sleep", "status"} -> 3
    [] p = "done" -> 4

\* C10: a call only moves forward along Created -> Uploading -> JobCreated
\* -> Polling -> terminal; once it has ended its result and its outbound
\* calls stay as they are; and the next call starts afresh: no result, no
\* job id, its own upload call, and the job it later polls is the one its
\* own create call made.
C10_TerminalIsFinal ==
  /\ [](transcriptId # 0 => (transcriptId = remoteJobs /\ creates = 1))
  /\ [][ /\ callNo' = callNo => Rank(pc') >= Rank(pc)
         /\ (pc = "done" /\ callNo' = callNo) =>
               /\ pc' = "done" /\ result' = result
               /\ uploads' = uploads /\ creates' = creates /\ polls' = polls
               /\ remoteJobs' = remoteJobs
         /\ callNo' # callNo =>
               /\ callNo' = callNo + 1 /\ pc' = "upload"
               /\ result' = NoResult /\ transcriptId' = 0
               /\ uploads' = 1 /\ creates' = 0 /\ polls' = 0
               /\ remoteJobs' = remoteJobs
       ]_vars

C10_Witness ==
  /\ callNo = 2 /\ pc = "done" /\ result.kind = "ok"
  /\ transcriptId = 2 /\ uploads = 1 /\ creates = 1

\* the request being served has issued no outbound call
NoOutboundCall == uploads = 0 /\ creates = 0 /\ polls = 0

\* C11: a file whose content type is outside the accepted set (audio/mpeg,
\* audio/wav, audio/ogg) is answered with an error and no outbound call is
\* ever issued for it: it is never forwarded to the transcription backend.
C11_UnsupportedTypeNeverForwarded ==
  (req.hasFile /\ req.mimetype \notin AcceptedTypes) =>
    (NoOutboundCall /\ HttpStatus >= 400)

\* C12: the Whisper handler issues exactly one outbound call for a request
\* it forwards, a POST to the model, and never a status poll; it goes from
\* the request to the one call to the answer; and when the call returns
\* [{transcription_text: t}] with t non-empty the answer is the success
\* with text t.
C12_OneCallNoPolls ==
  /\ Len(wOutbound) <= 1
  /\ \A i \in 1..Len(wOutbound) :
       wOutbound[i].method = "POST" /\ wOutbound[i].url = WhisperUrl
  /\ wPc = "post" => (Len(wOutbound) = 1 /\ wRes = NoResponse)
  /\ wRes.status = 200 => (wPc = "responded" /\ Len(wOutbound) = 1)
  /\ (wPc = "responded" /\ wData.shape = "array" /\ wData.first # "")
       => wRes = Success(wData.first)

C12_Witness ==
  /\ wPc = "responded"
  /\ wData.shape = "array" /\ wData.first = "hi"
  /\ wRes.success /\ wRes.text = "hi"
  /\ Len(wOutbound) = 1

C14_ConcurrentCallsIndependent ==
  \A c \in Callers :
    /\ cResult[c] = Alone(cHist[c])
    /\ cId[c] = cCreated[c]
    /\ cPolled[c] \in {0, cCreated[c]}
    /\ \A d \in Callers \ {c} : cCreated[c] # 0 => cCreated[c] # cCreated[d]

\* the poll loops of two invocations overlapped, one timed out and the other
\* returned a text
C14_Witness ==
  /\ cResult["a"] = Threw(TimedOutMessage, 0)
  /\ cResult["b"] = Returned("hello")
  /\ cStart["a"] < cStart["b"]
  /\ cStart["b"] < cStart["a"] + MaxWaitMs

\* C17: once the caller has cancelled an invocation that is suspended (its
\* client has gone away), that invocation issues no further outbound call.
C17_NoRequestAfterCancel ==
  [][\A c \in Callers : cGone[c] => cSent'[c] = cSent[c]]_vars

\* status calls of the current call that have returned or failed
StatusAnswered ==
  nonTerminal
  + (IF lastBody.status \in {"completed", "error"} THEN 1 ELSE 0)
  + (IF failure.call = "status" THEN 1 ELSE 0)

\* status calls of the current call that are in flight
StatusInFlight == polls - StatusAnswered

\* C15: polling is serial within one call: at most one status request is in
\* flight at any time, one is in flight exactly while the call awaits it,
\* and it was issued only after the previous one had returned (or the loop
\* had begun) and the sleep between polls had elapsed.
C15_PollingIsSerial ==
  /\ StatusInFlight \in {0, 1}
  /\ StatusInFlight = 1 <=> pc = "status"
  /\ pc = "status" => now - lastReturnAt >= PollIntervalMs

C15_Witness ==
  /\ pc = "status"
  /\ polls = 3 /\ nonTerminal = 2
  /\ StatusInFlight = 1

\* C16: a call yields a text only when it completed: it returns t only if
\* a status poll of that call answered completed with the text t, and a call
\* that failed or timed out yields no text.
C16_TextOnlyWhenCompleted ==
  /\ result.kind = "ok" =>
       /\ pc = "done"
       /\ polls >= 1 /\ polledId = transcriptId
       /\ lastBody.status = "completed"
       /\ lastBody.text = result.text
       /\ result.text # ""
  /\ (pc = "done" /\ lastBody.status # "completed") =>
       (result.kind = "threw" /\ result.text = "")
  /\ result.text # "" => result.kind = "ok"

C16_Witness ==
  /\ pc = "done"
  /\ result = Returned("done")
  /\ lastBody.status = "completed" /\ lastBody.text = "done"
  /\ nonTerminal = 1

\* C18: /upload-audio enforces the size ceiling before any byte reaches the
\* transcription backend: a request without a file is answered 400, an audio
\* file larger than the ceiling is answered 413, and in both cases no
\* outbound call is made.
C18_SizeCeilingEnforced ==
  /\ req = NoFile => (HttpStatus = 400 /\ NoOutboundCall)
  /\ (req.hasFile /\ req.mimetype \in AcceptedTypes /\ req.size > AudioLimit)
       => (HttpStatus = 413 /\ NoOutboundCall)

\* the call ended with an error other than the timeout
RemoteFailure == pc = "done" /\ result.kind = "threw" /\ ~TimedOut

\* C20: the HTTP layer maps the outcomes to distinguishable responses: a
\* timeout and a remote upload, job or poll failure are both answered with a
\* 5xx status, but not with the same one, and the input the handler refuses
\* is answered with a 4xx status.
C20_OutcomesDistinguishable ==
  /\ TimedOut => HttpStatus \in 500..599
  /\ RemoteFailure =>
       /\ HttpStatus \in 500..599
       /\ HttpStatus # Respond(Threw(TimedOutMessage, 0))
  /\ (req # NoRequest /\ GateOf[req] \in {400, 413}) => HttpStatus \in 400..499

\* C19 as stated: the retry of queryAI backs off exponentially: each delay
\* is longer than the one before it, and by the same factor.
C19_ExponentialBackoff ==
  /\ \A i \in 1..(Len(qDelays) - 1) : qDelays[i + 1] > qDelays[i]
  /\ \A i \in 1..(Len(qDelays) - 2) :
       qDelays[i + 1] * qDelays[i + 1] = qDelays[i] * qDelays[i + 2]

\* C19, amended: the retry of queryAI backs off linearly: the delay before
\* the n-th retry is n times 1000 ms, so each delay is 1000 ms longer than
\* the one before it, and at most three retries are made.
C19_LinearBackoff ==
  /\ Len(qDelays) <= DefaultRetries
  /\ \A i \in 1..Len(qDelays) : qDelays[i] = i * BackoffUnitMs
  /\ \A i \in 1..(Len(qDelays) - 1) : qDelays[i + 1] - qDelays[i] = BackoffUnitMs

C19_Witness ==
  /\ qDelays = << 1000, 2000, 3000 >>
  /\ qAttempts = 4
  /\ qPc = "done"

\* the message of the error caught last
LastFailureMessage == qLog[Len(qLog)].message

\* at most 4 attempts, with the delays 1000, 2000, 3000 ms between them in
\* that order, and the call ends when the attempt without retries left fails
AttemptsAndDelays ==
  /\ qRetries \in 0..DefaultRetries
  /\ qAttempts <= 4
  /\ Len(qLog) <= 4
  /\ qDelays = SubSeq(<< 1000, 2000, 3000 >>, 1, Len(qDelays))
  /\ qPc = "post" => Len(qDelays) = DefaultRetries - qRetries
  /\ (qPc = "post" /\ qKey) => qAttempts = Len(qDelays) + 1
  /\ Len(qLog) = 4 => (qPc = "done" /\ qResult.kind = "threw")

\* the retries argument only ever decreases, by one with each recursive call
RetriesDecrease == [][qRetries' # qRetries => qRetries' = qRetries - 1]_vars

\* a call that was made ends
QueryTerminates == (qPc # "idle") ~> (qPc = "done")

\* C21 as stated: every queryAI(prompt) call terminates, the retries
\* argument strictly decreases with each recursive call, at most 4 attempts
\* are made with the delays 1000, 2000, 3000 ms between them, and the error
\* the call throws carries the message of the last failure.
C21_TerminatesWithLastFailure ==
  /\ [](AttemptsAndDelays)
  /\ []((qPc = "done" /\ qResult.kind = "threw")
          => qResult.message = LastFailureMessage)
  /\ RetriesDecrease
  /\ QueryTerminates

\* C21, amended: as stated, except that the error thrown carries the
\* message of the last failure unless that failure is a 429 in the Hugging
\* Face variant, which is thrown as the fixed rate-limit error.
C21_TerminatesWithLastFailureOrRateLimit ==
  /\ [](AttemptsAndDelays)
  /\ []((qPc = "done" /\ qResult.kind = "threw") =>
          qResult.message =
            IF qVariant = "huggingface" /\ qLog[Len(qLog)].httpStatus = 429
              THEN RateLimitMessage ELSE LastFailureMessage)
  /\ RetriesDecrease
  /\ QueryTerminates

\* four attempts were made and failed, the last with a server error
C21_Witness ==
  /\ qPc = "done" /\ qAttempts = 4 /\ qRetries = 0
  /\ qDelays = << 1000, 2000, 3000 >>
  /\ Len(qLog) = 4 /\ qLog[4].httpStatus = 500
  /\ qResult = Threw("Request failed with status code 500", 0)

\* C22: queryAI never retries after an authentication or rate-limit
\* rejection: no error but the last one caught is a 401 or, in the Hugging
\* Face variant, a 429; a 401 ends the call with an error, with no sleep and
\* no outbound call after it; and a 429 ends the Hugging Face variant at
\* once with the rate-limit error, which the /ask-ai handler answers 429.
C22_NoRetryAfterRejection ==
  /\ \A i \in 1..(Len(qLog) - 1) :
       /\ qLog[i].httpStatus # 401
       /\ qVariant = "huggingface" => qLog[i].httpStatus # 429
  /\ (Len(qLog) > 0 /\ qLog[Len(qLog)].httpStatus = 401) =>
       /\ qPc = "done" /\ qResult.kind = "threw"
       /\ Len(qDelays) = Len(qLog) - 1
       /\ qAttempts = Len(qLog)
  /\ (Len(qLog) > 0 /\ qVariant = "huggingface"
        /\ qLog[Len(qLog)].httpStatus = 429) =>
       /\ qPc = "done" /\ qResult = Threw(RateLimitMessage, 0)
       /\ Len(qDelays) = Len(qLog) - 1
       /\ qAttempts = Len(qLog)
       /\ AskHttpStatus = 429

C22_Witness ==
  /\ qVariant = "huggingface"
  /\ Len(qLog) = 2 /\ qLog[2].httpStatus = 429
  /\ qAttempts = 2 /\ qDelays = << 1000 >>
  /\ AskHttpStatus = 429

\* the member v of the body is missing, empty or whitespace-only
MissingOrBlank(v) ==
  \/ v.type = "undefined"
  \/ v.type = "string" /\ v.str \in {"", "  "}

\* C25: /ask-ai requires a question and a text: when the question or the
\* pdfText of the request is missing, empty or whitespace-only the handler
\* answers 400 and queryAI is not invoked; for every other request queryAI
\* is invoked exactly once.
C25_BothRequiredElseOneCall ==
  aReq # NoAsk =>
    IF MissingOrBlank(aReq.question) \/ MissingOrBlank(aReq.pdfText)
      THEN AskHttpStatus = 400 /\ aInvoked = 0 /\ qAttempts = 0
      ELSE aInvoked = 1

\* the same for the requests whose question and pdfText are strings or
\* absent
C25_HoldsForStrings ==
  (aReq # NoAsk /\ ~TrimThrows(aReq.question) /\ ~TrimThrows(aReq.pdfText))
    => C25_BothRequiredElseOneCall

\* the calls strictly alternate between the models, the primary one first
Alternate(calls) ==
  \A i \in 1..Len(calls) :
    calls[i] = IF i % 2 = 1 THEN PrimaryModel ELSE FallbackModel

\* how many of the calls went to the model m
CallsTo(m) == Cardinality({ i \in 1..Len(fCalls) : fCalls[i] = m })

\* C23: in the revision with the fallback model the calls of one
\* queryAI(prompt) alternate between the primary and the fallback model,
\* the primary first; at most 4 primary and 3 fallback calls are made; the
\* first successful call ends the sequence and the source tag names the
\* model that answered; and when every call fails the error thrown is that
\* of the last primary attempt.
C23_CandidatesInFixedSequence ==
  /\ Alternate(fCalls)
  /\ CallsTo(PrimaryModel) <= 4 /\ CallsTo(FallbackModel) <= 3
  /\ fResult.kind = "ok" =>
       /\ fPc = "done"
       /\ fSource = IF fCalls[Len(fCalls)] = PrimaryModel
                      THEN "groq" ELSE "groq-fallback"
  /\ fResult.kind = "threw" =>
       /\ fPc = "done"
       /\ Len(fLog) = 4
       /\ fResult.message = fLog[4].message

\* the same for the calls made with the key configured
C23_HoldsWithKey == fKey => C23_CandidatesInFixedSequence

\* C24: when the API key is not configured queryAI issues no outbound
\* request, on any attempt and on the fallback path, and the /ask-ai
\* handler answers 401.
C24_NoKeyNoRequest ==
  /\ (fPc # "idle" /\ ~fKey) =>
       /\ fCalls = << >>
       /\ fPc = "done" => FallbackAskStatus = 401
  /\ (qPc # "idle" /\ ~qKey) =>
       /\ qAttempts = 0
       /\ qPc = "done" => AskHttpStatus = 401

\* in the revision with the fallback model the call without the key ends
\* with the error of the key check (after the fallback model was posted to)
C24_FallbackEndsUnauthorized ==
  (fPc = "done" /\ ~fKey) =>
    /\ FallbackAskStatus = 401
    /\ fCalls = << FallbackModel, FallbackModel, FallbackModel >>

\* the handler has ended for the request
HealthEnded == hPc \in {"done", "unanswered", "error500"}

\* C26: every GET /health request is answered with exactly one health
\* report whatever the probes do: the handler never ends without having
\* sent the report, never sends more than one, and the report marks every
\* service whose probe failed 'connection_failed'.
C26_HealthAlwaysAnswered ==
  /\ hReports <= 1
  /\ HealthEnded =>
       /\ hReports = 1 /\ hErrors = 0
       /\ hLog # << >> /\ hLog[Len(hLog)] = Report(hText, hAudio)
       /\ "text" \in hFailed => hText = "connection_failed"
       /\ "audio" \in hFailed => hAudio = "connection_failed"

\* the same for the two revisions that probe one backend
C26_HoldsForSingleProbe ==
  hVariant # "groq-assemblyai" => C26_HealthAlwaysAnswered

\* C27: the listen button stays consistent with the speech recogniser
\* after any sequence of clicks, results, errors and ends: whenever
\* recognition is not active the button shows 'Start Listening', start() is
\* never called while recognition is active, and stop() is never called
\* while it is inactive.
C27_ButtonMatchesRecogniser ==
  /\ ~Active => lButton = StartListening
  /\ lBadStarts = 0
  /\ lBadStops = 0

\* in the later revision the label is right whenever recognition is not
\* active, and stop() is never called while it is inactive
C27_LabelHoldsWithOnEnd ==
  lVariant = "part_001" =>
    /\ ~Active => lButton = StartListening /\ ~isListening
    /\ lBadStops = 0
====
